---- MODULE Spec2Model ----
(***************************************************************************)
(* CPU metadata probing of perf/metadata.py: the sticky cpupower circuit   *)
(* breaker (_get_cpu_boost), the per-core value merger                     *)
(* (_format_cpu_infos), the /proc/cpuinfo frequency scan                   *)
(* (_collect_cpu_freq), the driver/governor probe (_get_cpu_config), the   *)
(* coretemp probe (_get_cpu_temperature), the affinity description         *)
(* (_collect_cpu_affinity) and their orchestration                         *)
(* (_collect_cpu_metadata).                                                *)
(*                                                                         *)
(* Python values that may be None, an int or a set are tagged records      *)
(* [t |-> type name, v |-> value].  Text is built as real strings.  A call *)
(* that can raise returns a record whose exc field names the exception     *)
(* ("" when the call returns normally).                                    *)
(***************************************************************************)
EXTENDS Integers, Sequences, FiniteSets, TLC

VARIABLES
    pc,            \* position of _collect_cpu_metadata
    working,       \* _get_cpu_boost.working
    launched,      \* core -> number of cpupower processes spawned for it in this collection
    metadata,      \* the metadata dict filled by this collection
    exc,           \* exception that escaped the collection ("" if none)
    cpu_count,     \* local of _collect_cpu_metadata
    cpu_affinity,  \* local of _collect_cpu_metadata
    isolated,      \* local of _collect_cpu_affinity
    all_cpus,      \* local of _collect_cpu_metadata
    lines,         \* lines of /proc/cpuinfo read so far by _collect_cpu_freq
    cpu,           \* local of _collect_cpu_freq: the current core
    cpu_freq,      \* local of _collect_cpu_freq
    todo,          \* cores _collect_cpu_config still has to visit
    configs,       \* local of _collect_cpu_config
    last,          \* the last _get_cpu_config call: its inputs and its result
    f_infos,       \* argument of a direct _format_cpu_infos call
    f_cpus,        \* argument of a direct _format_cpu_infos call
    f_ret          \* its result

vars == <<pc, working, launched, metadata, exc, cpu_count, cpu_affinity,
          isolated, all_cpus, lines, cpu, cpu_freq, todo, configs, last,
          f_infos, f_cpus, f_ret>>

(***************************************************************************)
(* Bounds                                                                  *)
(***************************************************************************)
MaxCores == 2      \* logical cores of the host: 0 .. MaxCores-1
MaxLines == 4      \* lines of /proc/cpuinfo
MaxOut == 2        \* lines of cpupower output
MaxSensors == 1    \* tempN_label files of one hwmon device
MaxHwmon == 1      \* devices of /sys/class/hwmon
MaxScope == 3      \* cores of the scope of a direct _format_cpu_infos call

Cores == 0 .. (MaxCores - 1)

(***************************************************************************)
(* Python values                                                           *)
(***************************************************************************)
PyNone == [t |-> "None", v |-> 0]
PyInt(n) == [t |-> "int", v |-> n]
PySet(S) == [t |-> "set", v |-> S]

\* truth value of a Python object: None, 0 and the empty set are false
Truthy(x) ==
    CASE x.t = "None" -> FALSE
      [] x.t = "int" -> x.v # 0
      [] x.t = "set" -> x.v # {}

Return(text) == [exc |-> "", text |-> text]
Raise(e) == [exc |-> e, text |-> ""]

Range(s) == {s[i] : i \in DOMAIN s}

\* sorted(), also the iteration order of a set of small ints
RECURSIVE sorted(_)
sorted(S) ==
    IF S = {} THEN <<>>
    ELSE LET m == CHOOSE x \in S : \A y \in S : x <= y
         IN <<m>> \o sorted(S \ {m})

\* sep.join(parts)
RECURSIVE join(_, _)
join(sep, parts) ==
    IF parts = <<>> THEN ""
    ELSE IF Len(parts) = 1 THEN parts[1]
    ELSE parts[1] \o sep \o join(sep, Tail(parts))

\* dict with key k set to value v
SetItem(d, k, v) == [x \in DOMAIN d \cup {k} |-> IF x = k THEN v ELSE d[x]]

EmptyDict == [x \in {} |-> ""]

(***************************************************************************)
(* perf._format_cpu_list: the compact range list of a set of cores         *)
(***************************************************************************)
RangeText(first, hi) ==
    IF first = hi THEN ToString(first)
    ELSE ToString(first) \o "-" \o ToString(hi)

RECURSIVE cpu_ranges(_, _, _)
cpu_ranges(s, first, hi) ==
    IF s = <<>> THEN <<RangeText(first, hi)>>
    ELSE IF Head(s) = hi + 1 THEN cpu_ranges(Tail(s), first, Head(s))
    ELSE <<RangeText(first, hi)>> \o cpu_ranges(Tail(s), Head(s), Head(s))

_format_cpu_list(cpus) ==
    LET s == sorted(cpus)
    IN IF s = <<>> THEN "" ELSE join(",", cpu_ranges(Tail(s), s[1], s[1]))

(***************************************************************************)
(* _format_cpu_infos(infos, cpus): infos is a dict core -> text, cpus the  *)
(* scope as the sequence of its cores in iteration order                   *)
(***************************************************************************)
\* '%s=%s' % (cpu, info)
Item(c, info) == ToString(c) \o "=" \o info

\* _format_cpu_infos merging whenever every core of the scope has a value
_format_cpu_infos_coverage(infos, cpus) ==
    LET missing == {i \in DOMAIN cpus : cpus[i] \notin DOMAIN infos}
        merge == Cardinality(DOMAIN infos) = Len(cpus) /\ missing = {} /\ cpus # <<>>
    IN IF missing # {} THEN Raise("KeyError")
       ELSE IF ~merge
       THEN Return(join(", ", [i \in DOMAIN cpus |-> Item(cpus[i], infos[cpus[i]])]))
       ELSE Return(_format_cpu_list(Range(cpus)) \o "=" \o infos[cpus[1]])

_format_cpu_infos(infos, cpus) ==
    LET missing == {i \in DOMAIN cpus : cpus[i] \notin DOMAIN infos}
        merge == /\ Cardinality(DOMAIN infos) = Len(cpus)
                 /\ missing = {}
                 /\ Cardinality({infos[cpus[i]] : i \in DOMAIN cpus}) = 1
    IN IF missing # {} THEN Raise("KeyError")
       ELSE IF ~merge
       THEN Return(join(", ", [i \in DOMAIN cpus |-> Item(cpus[i], infos[cpus[i]])]))
       ELSE Return(_format_cpu_list(Range(cpus)) \o "=" \o infos[cpus[1]])

(***************************************************************************)
(* Files of /proc and /sys.  A file is [exists, line]: whether it can be   *)
(* opened, and its first line with the trailing whitespace already         *)
(* stripped.                                                               *)
(***************************************************************************)
File(line) == [exists |-> TRUE, line |-> line]
NoFile == [exists |-> FALSE, line |-> ""]

\* _first_line(path, default=None); default is PyNone or a str
PyStr(text) == [t |-> "str", v |-> text]

_first_line(f, default) ==
    IF f.exists THEN Return(f.line)
    ELSE IF default.t # "None" THEN Return(default.v)
    ELSE Raise("IOError")

(***************************************************************************)
(* _get_cpu_boost(cpu).  run is what happens when cpupower is spawned:     *)
(* [launch |-> "OSError" or "ok", returncode, stdout]; a line of stdout is *)
(* [section |-> 'boost state support' in line,                             *)
(*  supported |-> 'Supported:' in line, value |-> the text after the first *)
(*  colon, stripped].                                                      *)
(***************************************************************************)
PyBool(b) == [t |-> "bool", v |-> b]

OutLine(section, supported, value) ==
    [section |-> section, supported |-> supported, value |-> value]

OutLines ==
    { OutLine(TRUE, FALSE, ""),          \* "    boost state support:"
      OutLine(FALSE, TRUE, "yes"),       \* "      Supported: yes"
      OutLine(FALSE, TRUE, "no"),        \* "      Supported: no"
      OutLine(FALSE, TRUE, "maybe"),     \* "      Supported: maybe"
      OutLine(FALSE, FALSE, "") }        \* "analyzing CPU 0:"

RECURSIVE SeqsUpTo(_, _)
SeqsUpTo(S, n) ==
    IF n = 0 THEN {<<>>}
    ELSE LET shorter == SeqsUpTo(S, n - 1)
         IN shorter \cup {Append(s, x) : s \in shorter, x \in S}

Runs ==
    {[launch |-> "OSError", returncode |-> 0, stdout |-> <<>>],
     [launch |-> "ok", returncode |-> 1, stdout |-> <<>>]}
    \cup {[launch |-> "ok", returncode |-> 0, stdout |-> out] :
             out \in SeqsUpTo(OutLines, MaxOut)}

\* the loop over stdout.splitlines(): the value returned, or ValueError
RECURSIVE parse_boost(_, _)
parse_boost(stdout, boost) ==
    IF stdout = <<>> THEN [exc |-> "ValueError", ret |-> PyNone]
    ELSE LET line == Head(stdout)
         IN IF boost
            THEN IF line.supported
                 THEN IF line.value = "no" THEN [exc |-> "", ret |-> PyBool(FALSE)]
                      ELSE IF line.value = "yes" THEN [exc |-> "", ret |-> PyBool(TRUE)]
                      ELSE [exc |-> "ValueError", ret |-> PyNone]
                 ELSE parse_boost(Tail(stdout), TRUE)
            ELSE parse_boost(Tail(stdout), line.section)

\* _get_cpu_boost without the test of the flag at its head
_get_cpu_boost_unguarded(w, run) ==
    IF run.launch = "OSError" \/ run.returncode # 0
    THEN [working |-> FALSE, launch |-> TRUE, exc |-> "", ret |-> PyNone]
    ELSE LET p == parse_boost(run.stdout, FALSE)
         IN [working |-> w, launch |-> TRUE, exc |-> p.exc, ret |-> p.ret]

\* _get_cpu_boost clearing the flag also when the output cannot be parsed
_get_cpu_boost_strict(w, run) ==
    IF ~w
    THEN [working |-> w, launch |-> FALSE, exc |-> "", ret |-> PyNone]
    ELSE IF run.launch = "OSError" \/ run.returncode # 0
    THEN [working |-> FALSE, launch |-> TRUE, exc |-> "", ret |-> PyNone]
    ELSE LET p == parse_boost(run.stdout, FALSE)
         IN [working |-> p.exc = "", launch |-> TRUE, exc |-> p.exc, ret |-> p.ret]

\* result: the new value of _get_cpu_boost.working, whether Popen was
\* called, the exception raised and the value returned
_get_cpu_boost(w, run) ==
    IF ~w
    THEN [working |-> w, launch |-> FALSE, exc |-> "", ret |-> PyNone]
    ELSE IF run.launch = "OSError" \/ run.returncode # 0
    THEN [working |-> FALSE, launch |-> TRUE, exc |-> "", ret |-> PyNone]
    ELSE LET p == parse_boost(run.stdout, FALSE)
         IN [working |-> w, launch |-> TRUE, exc |-> p.exc, ret |-> p.ret]

(***************************************************************************)
(* _get_cpu_config(cpu).  fs holds the three files it may read.            *)
(***************************************************************************)
Drivers == {NoFile, File("intel_pstate"), File("acpi-cpufreq")}
NoTurbos == {NoFile, File("0"), File("1"), File("2")}
Governors == {NoFile, File("powersave")}

\* no_turbo is read only when the driver is intel_pstate
SysFiles ==
    [scaling_driver : {File("intel_pstate")}, no_turbo : NoTurbos,
     scaling_governor : Governors]
    \cup [scaling_driver : Drivers \ {File("intel_pstate")}, no_turbo : {NoFile},
          scaling_governor : Governors]

\* cpupower is spawned only when the flag is set and the driver is not intel_pstate
RunsFor(w, fs) ==
    IF w /\ fs.scaling_driver # File("intel_pstate") THEN Runs
    ELSE {[launch |-> "ok", returncode |-> 0, stdout |-> <<>>]}

\* _get_cpu_config asking cpupower whatever the driver is
_get_cpu_config_always(w, fs, run) ==
    LET scaling_driver == _first_line(fs.scaling_driver, PyStr("")).text
        info1 == IF scaling_driver # "" THEN <<"driver:" \o scaling_driver>> ELSE <<>>
        pstate == scaling_driver = "intel_pstate"
        no_turbo == _first_line(fs.no_turbo, PyStr("")).text
        b == _get_cpu_boost(w, run)
        info2 == IF pstate
                 THEN IF no_turbo = "1" THEN <<"intel_pstate:no turbo">>
                      ELSE IF no_turbo = "0" THEN <<"intel_pstate:turbo">>
                      ELSE <<>>
                 ELSE IF b.ret.t = "None" THEN <<>>
                      ELSE IF b.ret.v THEN <<"boost:supported">>
                      ELSE <<"boost:not suppported">>
        scaling_governor == _first_line(fs.scaling_governor, PyStr("")).text
        info3 == IF scaling_governor # "" THEN <<"governor:" \o scaling_governor>> ELSE <<>>
        info == info1 \o info2 \o info3
    IN [working |-> b.working, launch |-> b.launch, exc |-> b.exc, boost |-> b.ret,
        ret |-> IF b.exc # "" \/ info = <<>> THEN PyNone ELSE PyStr(join(", ", info))]

_get_cpu_config(w, fs, run) ==
    LET scaling_driver == _first_line(fs.scaling_driver, PyStr("")).text
        info1 == IF scaling_driver # "" THEN <<"driver:" \o scaling_driver>> ELSE <<>>
        pstate == scaling_driver = "intel_pstate"
        no_turbo == _first_line(fs.no_turbo, PyStr("")).text
        b == IF pstate
             THEN [working |-> w, launch |-> FALSE, exc |-> "", ret |-> PyNone]
             ELSE _get_cpu_boost(w, run)
        info2 == IF pstate
                 THEN IF no_turbo = "1" THEN <<"intel_pstate:no turbo">>
                      ELSE IF no_turbo = "0" THEN <<"intel_pstate:turbo">>
                      ELSE <<>>
                 ELSE IF b.ret.t = "None" THEN <<>>
                      ELSE IF b.ret.v THEN <<"boost:supported">>
                      ELSE <<"boost:not suppported">>
        scaling_governor == _first_line(fs.scaling_governor, PyStr("")).text
        info3 == IF scaling_governor # "" THEN <<"governor:" \o scaling_governor>> ELSE <<>>
        info == info1 \o info2 \o info3
    IN [working |-> b.working, launch |-> b.launch, exc |-> b.exc, boost |-> b.ret,
        ret |-> IF b.exc # "" \/ info = <<>> THEN PyNone ELSE PyStr(join(", ", info))]

(***************************************************************************)
(* _collect_cpu_affinity(metadata, cpu_affinity, cpu_count); iso is what   *)
(* perf._get_isolated_cpus() returns                                       *)
(***************************************************************************)
\* _collect_cpu_affinity marking the affinity as isolated whenever the
\* host has isolated cores
_collect_cpu_affinity_any(md, affinity, count, iso) ==
    IF ~Truthy(affinity) THEN md
    ELSE IF ~Truthy(count) THEN md
    ELSE IF affinity.v = 0 .. (count.v - 1) THEN md
    ELSE LET text == _format_cpu_list(affinity.v)
         IN SetItem(md, "cpu_affinity",
                    IF iso # {} THEN text \o " (isolated)" ELSE text)

_collect_cpu_affinity(md, affinity, count, iso) ==
    IF ~Truthy(affinity) THEN md
    ELSE IF ~Truthy(count) THEN md
    ELSE IF affinity.v = 0 .. (count.v - 1) THEN md
    ELSE LET text == _format_cpu_list(affinity.v)
         IN SetItem(md, "cpu_affinity",
                    IF iso # {} /\ affinity.v \subseteq iso
                    THEN text \o " (isolated)"
                    ELSE text)

(***************************************************************************)
(* _collect_cpu_freq: one iteration of the loop over /proc/cpuinfo.  A     *)
(* line is [key, val]: val is the core id of a "processor" line and the    *)
(* frequency in tenths of MHz of a "cpu MHz" line.                         *)
(***************************************************************************)
CpuinfoLines ==
    {[key |-> "processor", val |-> c] : c \in Cores}
    \cup {[key |-> "cpu MHz", val |-> f] : f \in {23996, 25003}}
    \cup {[key |-> "model name", val |-> 0]}

\* n/d rounded to the nearest integer, ties to the even one
RoundDiv(n, d) ==
    LET q == n \div d
        r == n % d
    IN IF 2 * r < d THEN q
       ELSE IF 2 * r > d THEN q + 1
       ELSE IF q % 2 = 0 THEN q ELSE q + 1

\* '%s MHz' % int(round(float(mhz)))
FormatMHz(tenths) == ToString(RoundDiv(tenths, 10)) \o " MHz"

\* the scan step keeping the current core on a "processor" line that is
\* outside the scope
ScanLine_noskip(line, cpus, cur, freq) ==
    IF line.key = "processor"
    THEN [cpu |-> IF line.val \notin cpus THEN cur ELSE PyInt(line.val),
          cpu_freq |-> freq]
    ELSE IF line.key = "cpu MHz" /\ cur.t # "None"
    THEN [cpu |-> cur, cpu_freq |-> SetItem(freq, cur.v, FormatMHz(line.val))]
    ELSE [cpu |-> cur, cpu_freq |-> freq]

\* the new values of cpu and cpu_freq after one line
ScanLine(line, cpus, cur, freq) ==
    IF line.key = "processor"
    THEN [cpu |-> IF line.val \notin cpus THEN PyNone ELSE PyInt(line.val),
          cpu_freq |-> freq]
    ELSE IF line.key = "cpu MHz" /\ cur.t # "None"
    THEN [cpu |-> cur, cpu_freq |-> SetItem(freq, cur.v, FormatMHz(line.val))]
    ELSE [cpu |-> cur, cpu_freq |-> freq]

(***************************************************************************)
(* _get_cpu_temperature(path, cpu_temp) and _get_cpu_temperatures.  A      *)
(* hwmon device is [name, sensors]: its name file and, for the indexes     *)
(* 1, 2, ..., the files tempN_label and tempN_input (in millidegrees); an  *)
(* index past the end of sensors has no label file.                        *)
(***************************************************************************)
\* tempN_input is read only when tempN_label exists
Sensors ==
    {[label |-> NoFile, input |-> [exists |-> FALSE, line |-> 0]]}
    \cup [label : {File("Core 0")},
          input : {[exists |-> FALSE, line |-> 0], File(45600)}]

\* the tempN files are read only when the device is a coretemp
Devices ==
    [name : {NoFile, File("acpitz")}, sensors : {<<>>}]
    \cup [name : {File("coretemp")}, sensors : SeqsUpTo(Sensors, MaxSensors)]

\* what os.listdir("/sys/class/hwmon") gives: OSError, or the devices
Hwmons ==
    {[listdir |-> "OSError", devices |-> <<>>]}
    \cup {[listdir |-> "ok", devices |-> d] : d \in SeqsUpTo(Devices, MaxHwmon)}

\* "%.0f C" % (float(temp_input) / 1000)
FormatTemp(milli) == ToString(RoundDiv(milli, 1000)) \o " C"

\* the while loop, from index on
RECURSIVE temp_loop(_, _, _, _)
temp_loop(hwmon_name, sensors, index, cpu_temp) ==
    LET label == IF index \in DOMAIN sensors THEN sensors[index].label ELSE NoFile
        temp_label == _first_line(label, PyNone)
        temp_input == _first_line(sensors[index].input, PyNone)
    IN IF temp_label.exc # "" THEN [exc |-> "", cpu_temp |-> cpu_temp]
       ELSE IF temp_input.exc # "" THEN [exc |-> temp_input.exc, cpu_temp |-> cpu_temp]
       ELSE temp_loop(hwmon_name, sensors, index + 1,
                      Append(cpu_temp, hwmon_name \o ":" \o temp_label.text
                                       \o "=" \o FormatTemp(temp_input.text)))

\* startswith('coretemp') is decided on the names the model uses
_get_cpu_temperature(dev, cpu_temp) ==
    LET hwmon_name == _first_line(dev.name, PyStr("")).text
    IN IF hwmon_name # "coretemp" THEN [exc |-> "", cpu_temp |-> cpu_temp]
       ELSE temp_loop(hwmon_name, dev.sensors, 1, cpu_temp)

RECURSIVE temp_devices(_, _)
temp_devices(devices, cpu_temp) ==
    IF devices = <<>> THEN [exc |-> "", cpu_temp |-> cpu_temp]
    ELSE LET r == _get_cpu_temperature(Head(devices), cpu_temp)
         IN IF r.exc # "" THEN r ELSE temp_devices(Tail(devices), r.cpu_temp)

\* result: the exception raised and the new metadata
_get_cpu_temperatures(md, hw) ==
    IF hw.listdir = "OSError" THEN [exc |-> "", metadata |-> md]
    ELSE LET r == temp_devices(hw.devices, <<>>)
         IN IF r.exc # "" THEN [exc |-> r.exc, metadata |-> md]
            ELSE IF r.cpu_temp = <<>> THEN [exc |-> "", metadata |-> md]
            ELSE [exc |-> "", metadata |-> SetItem(md, "cpu_temp", join(", ", r.cpu_temp))]

(***************************************************************************)
(* The collection: _collect_cpu_metadata, one action per step              *)
(***************************************************************************)
NoCall ==
    [cpu |-> -1, driver |-> "", governor |-> "", run |-> "", exc |-> "",
     boost |-> PyNone, ret |-> PyNone]

NotCalled == [exc |-> "pending", text |-> ""]

Init ==
    /\ pc = "start"
    /\ working = TRUE
    /\ launched = [c \in Cores |-> 0]
    /\ metadata = EmptyDict
    /\ exc = ""
    /\ cpu_count = PyNone
    /\ cpu_affinity = PyNone
    /\ isolated = {}
    /\ all_cpus = PyNone
    /\ lines = <<>>
    /\ cpu = PyNone
    /\ cpu_freq = EmptyDict
    /\ todo = <<>>
    /\ configs = EmptyDict
    /\ last = NoCall
    /\ f_infos = EmptyDict
    /\ f_cpus = <<>>
    /\ f_ret = NotCalled

\* what _get_logical_cpu_count() can return
CpuCounts == {PyNone} \cup {PyInt(n) : n \in 1 .. MaxCores}

\* what _get_cpu_affinity() can return on a host with that many cores
Affinities(count) ==
    {PyNone} \cup {PySet(S) : S \in SUBSET (IF count.t = "None" THEN Cores
                                            ELSE 0 .. (count.v - 1))}

\* lines 387-391
Start ==
    /\ pc = "start"
    /\ \E count \in CpuCounts : \E affinity \in Affinities(count) :
          /\ cpu_count' = count
          /\ cpu_affinity' = affinity
          /\ metadata' = IF Truthy(count)
                         THEN SetItem(metadata, "cpu_count", count.v)
                         ELSE metadata
    /\ pc' = "affinity"
    /\ UNCHANGED <<working, launched, exc, isolated, all_cpus, lines, cpu,
                   cpu_freq, todo, configs, last, f_infos, f_cpus, f_ret>>

\* line 392
Affinity ==
    /\ pc = "affinity"
    /\ \E iso \in SUBSET Cores :
          /\ isolated' = iso
          /\ metadata' = _collect_cpu_affinity(metadata, cpu_affinity, cpu_count, iso)
    /\ pc' = "scope"
    /\ UNCHANGED <<working, launched, exc, cpu_count, cpu_affinity, all_cpus,
                   lines, cpu, cpu_freq, todo, configs, last, f_infos, f_cpus, f_ret>>

\* lines 394-398
Scope ==
    /\ pc = "scope"
    /\ all_cpus' = IF ~Truthy(cpu_affinity) THEN cpu_count ELSE cpu_affinity
    /\ pc' = IF Truthy(all_cpus') THEN "freq" ELSE "temp"
    /\ isolated' = {}
    /\ UNCHANGED <<working, launched, metadata, exc, cpu_count, cpu_affinity,
                   lines, cpu, cpu_freq, todo, configs, last, f_infos, f_cpus, f_ret>>

\* _collect_cpu_freq, lines 254-258: set(cpus) raises TypeError on an int
FreqBegin ==
    /\ pc = "freq"
    /\ IF all_cpus.t = "set"
       THEN pc' = "freq_scan" /\ exc' = exc
       ELSE pc' = "raised" /\ exc' = "TypeError"
    /\ UNCHANGED <<working, launched, metadata, cpu_count, cpu_affinity,
                   isolated, all_cpus, lines, cpu, cpu_freq, todo, configs,
                   last, f_infos, f_cpus, f_ret>>

\* _collect_cpu_freq, lines 259-270: the next line of /proc/cpuinfo
FreqLine ==
    /\ pc = "freq_scan"
    /\ Len(lines) < MaxLines
    /\ \E line \in CpuinfoLines :
          LET r == ScanLine(line, all_cpus.v, cpu, cpu_freq)
          IN /\ lines' = Append(lines, line)
             /\ cpu' = r.cpu
             /\ cpu_freq' = r.cpu_freq
    /\ UNCHANGED <<pc, working, launched, metadata, exc, cpu_count,
                   cpu_affinity, isolated, all_cpus, todo, configs, last,
                   f_infos, f_cpus, f_ret>>

\* _collect_cpu_freq, lines 272-275: end of file (or no file at all)
FreqEnd ==
    /\ pc = "freq_scan"
    /\ LET r == _format_cpu_infos(cpu_freq, sorted(all_cpus.v))
       IN IF cpu_freq = EmptyDict
          THEN pc' = "config" /\ exc' = exc /\ metadata' = metadata
          ELSE IF r.exc # ""
          THEN pc' = "raised" /\ exc' = r.exc /\ metadata' = metadata
          ELSE pc' = "config" /\ exc' = exc
               /\ metadata' = SetItem(metadata, "cpu_freq", r.text)
    /\ lines' = <<>>
    /\ cpu' = PyNone
    /\ cpu_freq' = EmptyDict
    /\ todo' = IF pc' = "config" THEN sorted(all_cpus.v) ELSE <<>>
    /\ UNCHANGED <<working, launched, cpu_count, cpu_affinity, isolated,
                   all_cpus, configs, last, f_infos, f_cpus, f_ret>>

RunKind(r, run) ==
    IF ~r.launch THEN "not run"
    ELSE IF run.launch = "OSError" THEN "OSError"
    ELSE IF run.returncode # 0 THEN "exit 1"
    ELSE "exit 0"

\* _collect_cpu_config, lines 315-318: one iteration of the loop
ConfigCpu ==
    /\ pc = "config"
    /\ todo # <<>>
    /\ \E fs \in SysFiles : \E run \in RunsFor(working, fs) :
          LET c == Head(todo)
              r == _get_cpu_config(working, fs, run)
          IN /\ working' = r.working
             /\ launched' = [launched EXCEPT ![c] = @ + (IF r.launch THEN 1 ELSE 0)]
             /\ last' = [cpu |-> c,
                         driver |-> _first_line(fs.scaling_driver, PyStr("")).text,
                         governor |-> _first_line(fs.scaling_governor, PyStr("")).text,
                         run |-> RunKind(r, run), exc |-> r.exc,
                         boost |-> r.boost, ret |-> r.ret]
             /\ IF r.exc # ""
                THEN pc' = "raised" /\ exc' = r.exc /\ todo' = <<>>
                     /\ configs' = EmptyDict
                ELSE pc' = pc /\ exc' = exc /\ todo' = Tail(todo)
                     /\ configs' = IF r.ret.t = "str"
                                   THEN SetItem(configs, c, r.ret.v)
                                   ELSE configs
    /\ UNCHANGED <<metadata, cpu_count, cpu_affinity, isolated, all_cpus,
                   lines, cpu, cpu_freq, f_infos, f_cpus, f_ret>>

\* _collect_cpu_config, lines 319-321
ConfigEnd ==
    /\ pc = "config"
    /\ todo = <<>>
    /\ LET r == _format_cpu_infos(configs, sorted(all_cpus.v))
       IN IF configs = EmptyDict
          THEN pc' = "temp" /\ exc' = exc /\ metadata' = metadata
          ELSE IF r.exc # ""
          THEN pc' = "raised" /\ exc' = r.exc /\ metadata' = metadata
          ELSE pc' = "temp" /\ exc' = exc
               /\ metadata' = SetItem(metadata, "cpu_config", r.text)
    /\ configs' = EmptyDict
    /\ last' = NoCall
    /\ UNCHANGED <<working, launched, cpu_count, cpu_affinity, isolated,
                   all_cpus, lines, cpu, cpu_freq, todo, f_infos, f_cpus, f_ret>>

\* line 402
Temperatures ==
    /\ pc = "temp"
    /\ \E hw \in Hwmons :
          LET r == _get_cpu_temperatures(metadata, hw)
          IN /\ metadata' = r.metadata
             /\ exc' = r.exc
             /\ pc' = IF r.exc # "" THEN "raised" ELSE "done"
    /\ UNCHANGED <<working, launched, cpu_count, cpu_affinity, isolated,
                   all_cpus, lines, cpu, cpu_freq, todo, configs, last,
                   f_infos, f_cpus, f_ret>>

\* the next call of _collect_metadata in the same process: only
\* _get_cpu_boost.working survives
NextCollection ==
    /\ pc \in {"done", "raised"}
    /\ pc' = "start"
    /\ launched' = [c \in Cores |-> 0]
    /\ metadata' = EmptyDict
    /\ exc' = ""
    /\ cpu_count' = PyNone
    /\ cpu_affinity' = PyNone
    /\ all_cpus' = PyNone
    /\ last' = NoCall
    /\ UNCHANGED <<working, isolated, lines, cpu, cpu_freq, todo, configs,
                   f_infos, f_cpus, f_ret>>

Next ==
    \/ Start
    \/ Affinity
    \/ Scope
    \/ FreqBegin
    \/ FreqLine
    \/ FreqEnd
    \/ ConfigCpu
    \/ ConfigEnd
    \/ Temperatures
    \/ NextCollection

Spec == Init /\ [][Next]_vars

(***************************************************************************)
(* Direct calls of _format_cpu_infos on every dict and scope               *)
(***************************************************************************)
Infos == {"2400 MHz", "2500 MHz"}

\* the scopes: sequences of distinct cores
Scopes ==
    {s \in SeqsUpTo(0 .. (MaxScope - 1), MaxScope) :
        \A i, j \in DOMAIN s : i # j => s[i] # s[j]}

\* the dicts a probe can build over a scope: keys within the scope
Dicts(scope) ==
    UNION {[K -> Infos] : K \in SUBSET Range(scope)}

InitFormat ==
    /\ pc = "start"
    /\ working = TRUE
    /\ launched = [c \in Cores |-> 0]
    /\ metadata = EmptyDict
    /\ exc = ""
    /\ cpu_count = PyNone
    /\ cpu_affinity = PyNone
    /\ isolated = {}
    /\ all_cpus = PyNone
    /\ lines = <<>>
    /\ cpu = PyNone
    /\ cpu_freq = EmptyDict
    /\ todo = <<>>
    /\ configs = EmptyDict
    /\ last = NoCall
    /\ f_cpus \in Scopes
    /\ f_infos \in Dicts(f_cpus)
    /\ f_ret = NotCalled

FormatCall ==
    /\ f_ret = NotCalled
    /\ f_ret' = _format_cpu_infos(f_infos, f_cpus)
    /\ UNCHANGED <<pc, working, launched, metadata, exc, cpu_count,
                   cpu_affinity, isolated, all_cpus, lines, cpu, cpu_freq,
                   todo, configs, last, f_infos, f_cpus>>

NextFormat == FormatCall

SpecFormat == InitFormat /\ [][NextFormat]_vars

(***************************************************************************)
(* Properties                                                              *)
(***************************************************************************)
\* a step that is one _get_cpu_config call
InCall == pc = "config" /\ todo # <<>>

\* C1: once a call has ended in a launch failure or a non-zero exit,
\* _get_cpu_boost.working is false; once it is false it stays false, no
\* core gets another cpupower process, and every later _get_cpu_boost call
\* returns None without raising.
C1_StickyBreaker ==
    [][ /\ (InCall /\ last'.run \in {"OSError", "exit 1"}) => ~working'
        /\ ~working =>
              /\ ~working'
              /\ \A c \in Cores : launched'[c] <= launched[c]
              /\ InCall => /\ last'.run = "not run"
                           /\ last'.boost.t = "None"
                           /\ last'.exc = "" ]_vars

\* a call made after the breaker tripped, for a core that would have been probed
C1_Witness ==
    /\ ~working
    /\ last.cpu # -1
    /\ last.driver # "intel_pstate"
    /\ last.run = "not run"

\* C2 as stated: unparsable output of a successful command also trips the
\* breaker.
C2_UnparsableDisables == last.exc = "ValueError" => ~working

\* C2 amended: a call whose command exits with status 0 and whose output
\* cannot be parsed raises ValueError and leaves _get_cpu_boost.working
\* true; the flag changes only in a call that fails to launch or exits
\* non-zero, and while it is true a call for a core whose driver is not
\* intel_pstate launches the command.
C2_ParseErrorKeepsEnabled ==
    /\ [](last.exc = "ValueError" => working /\ last.run = "exit 0")
    /\ [][ InCall =>
             /\ working' # working => last'.run \in {"OSError", "exit 1"}
             /\ (working /\ last'.driver # "intel_pstate") => last'.run # "not run" ]_vars

C2_Witness ==
    /\ last.exc = "ValueError"
    /\ last.run = "exit 0"
    /\ working
    /\ pc = "raised"

\* the cores of a scope that have a value, in scope order
Present(infos, cpus) == SelectSeq(cpus, LAMBDA c : c \in DOMAIN infos)

PerCoreText(infos, cpus) ==
    join(", ", [i \in DOMAIN cpus |-> ToString(cpus[i]) \o "=" \o infos[cpus[i]]])

\* C3: with a non-empty dict whose keys are a strict subset of the scope,
\* _format_cpu_infos returns normally the "core=value" items of the cores
\* that have a value, in scope order, never the merged form.
C3_PartialCoverage ==
    (/\ f_ret # NotCalled
     /\ f_infos # EmptyDict
     /\ DOMAIN f_infos # Range(f_cpus))
    => /\ f_ret.exc = ""
       /\ f_ret.text = PerCoreText(f_infos, Present(f_infos, f_cpus))

\* C4: with a non-empty scope S and a dict whose key set is exactly S,
\* _format_cpu_infos returns "<range list of S>=<value>" if and only if all
\* the values are identical, and otherwise the |S| items "core=value" in
\* the order of S.
C4_MergeIffIdentical ==
    (/\ f_ret # NotCalled
     /\ f_cpus # <<>>
     /\ DOMAIN f_infos = Range(f_cpus))
    => LET identical == \A a, b \in DOMAIN f_infos : f_infos[a] = f_infos[b]
           merged == _format_cpu_list(Range(f_cpus)) \o "=" \o f_infos[f_cpus[1]]
       IN /\ f_ret.exc = ""
          /\ identical <=> f_ret.text = merged
          /\ ~identical => f_ret.text = PerCoreText(f_infos, f_cpus)

C4_Witness ==
    /\ f_cpus = <<2, 0>>
    /\ DOMAIN f_infos = {0, 2}
    /\ f_infos[0] = f_infos[2]
    /\ f_ret.exc = ""
    /\ f_ret.text = "0,2=" \o f_infos[0]

\* C5: the scope given to the probes is the affinity set when it is
\* non-empty and otherwise the set 0 .. cpu_count-1, and no TypeError stops
\* the collection.
C5_EffectiveScope ==
    (/\ pc \in {"freq", "freq_scan", "config", "temp", "done", "raised"}
     /\ Truthy(cpu_affinity) \/ Truthy(cpu_count))
    => /\ all_cpus.t = "set"
       /\ all_cpus.v = IF Truthy(cpu_affinity) THEN cpu_affinity.v
                       ELSE 0 .. (cpu_count.v - 1)
       /\ exc # "TypeError"

\* C6: whatever sources are missing or unreadable, no error of a missing
\* source or tool (IOError, OSError) escapes the collection.
C6_NoErrorEscapes == exc \notin {"IOError", "OSError"}

\* C7: _collect_cpu_affinity writes no cpu_affinity when the affinity is
\* empty or unknown, the count is unknown, or the affinity is
\* 0 .. cpu_count-1; otherwise it writes the range list of the affinity,
\* with the suffix " (isolated)" exactly when the isolated set is non-empty
\* and contains the affinity.
C7_DescribeAffinity ==
    pc = "scope" =>
       LET none == \/ ~Truthy(cpu_affinity)
                   \/ ~Truthy(cpu_count)
                   \/ cpu_affinity.v = 0 .. (cpu_count.v - 1)
           suffix == IF isolated # {} /\ cpu_affinity.v \subseteq isolated
                     THEN " (isolated)" ELSE ""
       IN IF none THEN "cpu_affinity" \notin DOMAIN metadata
          ELSE /\ "cpu_affinity" \in DOMAIN metadata
               /\ metadata["cpu_affinity"] = _format_cpu_list(cpu_affinity.v) \o suffix

C7_Witness ==
    /\ pc = "scope"
    /\ cpu_affinity.t = "set"
    /\ cpu_affinity.v = {1}
    /\ isolated = {1}
    /\ "cpu_affinity" \in DOMAIN metadata
    /\ metadata["cpu_affinity"] = "1 (isolated)"

\* C8: for a driver other than intel_pstate the description is
\* driver:<name>, then boost:supported / boost:not supported (nothing when
\* the tool gave None), then governor:<name>.
C8_BoostFragment ==
    (/\ last.cpu # -1
     /\ last.exc = ""
     /\ last.driver # "intel_pstate")
    => LET d == IF last.driver # "" THEN <<"driver:" \o last.driver>> ELSE <<>>
           b == IF last.boost.t = "None" THEN <<>>
                ELSE IF last.boost.v THEN <<"boost:supported">>
                ELSE <<"boost:not supported">>
           g == IF last.governor # "" THEN <<"governor:" \o last.governor>> ELSE <<>>
           info == d \o b \o g
       IN IF info = <<>> THEN last.ret.t = "None"
          ELSE last.ret.t = "str" /\ last.ret.v = join(", ", info)

\* the current core after the first n lines: the id of the last
\* "processor" line among them if it is in the scope
Current(ls, n, cpus) ==
    LET P == {i \in 1 .. n : ls[i].key = "processor"}
    IN IF P = {} THEN -1
       ELSE LET p == CHOOSE i \in P : \A j \in P : j <= i
            IN IF ls[p].val \in cpus THEN ls[p].val ELSE -1

\* the "cpu MHz" lines seen while core c was the current core
Recorded(ls, c, cpus) ==
    {i \in DOMAIN ls : ls[i].key = "cpu MHz" /\ Current(ls, i - 1, cpus) = c}

\* C9: after each line of the scan, the keys of cpu_freq are cores of the
\* scope: exactly those with a "cpu MHz" line seen while they were the
\* current core (a line seen with no current core records nothing), and
\* the value of a core is the rounded value of the last such line.
C9_FreqScan ==
    pc = "freq_scan" =>
       /\ DOMAIN cpu_freq \subseteq all_cpus.v
       /\ \A c \in Cores :
             LET R == Recorded(lines, c, all_cpus.v)
             IN IF R = {} THEN c \notin DOMAIN cpu_freq
                ELSE /\ c \in DOMAIN cpu_freq
                     /\ LET i == CHOOSE i \in R : \A j \in R : j <= i
                        IN cpu_freq[c] = ToString((lines[i].val + 5) \div 10) \o " MHz"

\* a line dropped for want of a current core, and a value overwritten
C9_Witness ==
    /\ pc = "freq_scan"
    /\ Len(lines) = 4
    /\ lines[1].key = "cpu MHz"
    /\ lines[2] = [key |-> "processor", val |-> 0]
    /\ lines[3] = [key |-> "cpu MHz", val |-> 25003]
    /\ lines[4] = [key |-> "cpu MHz", val |-> 23996]
    /\ DOMAIN cpu_freq = {0}
    /\ cpu_freq[0] = "2400 MHz"

\* C10: a _get_cpu_config call for a core whose driver is intel_pstate
\* spawns nothing and leaves _get_cpu_boost.working alone; in a collection
\* cpupower is spawned at most once per core, only for cores of the scope
\* and only in a call whose driver is not intel_pstate.
C10_PstateNoTool ==
    /\ [](\A c \in Cores : launched[c] <= 1
                           /\ (launched[c] = 1 => all_cpus.t = "set" /\ c \in all_cpus.v))
    /\ [][ InCall =>
             /\ last'.driver = "intel_pstate" =>
                   launched' = launched /\ working' = working
             /\ \A c \in Cores : launched'[c] # launched[c] =>
                   /\ c = Head(todo)
                   /\ last'.driver # "intel_pstate"
                   /\ launched'[c] = launched[c] + 1 ]_vars

C10_Witness ==
    /\ last.cpu = 1
    /\ last.driver = "intel_pstate"
    /\ last.run = "not run"
    /\ working
    /\ launched[0] = 1
    /\ launched[1] = 0

====
